---- MODULE Spec2Model ----
(***************************************************************************)
(* The raster drawing canvas of the sketch-to-3D application               *)
(* (DrawingCanvas, src/unnamed/part_000 lines 155-642): the pixel buffer,  *)
(* the undo / redo stacks of ImageData snapshots, the pointer handlers,    *)
(* the flood fill and the resize reconciliation.                           *)
(*                                                                         *)
(* Units.  Pointer coordinates and element sizes are real numbers in the   *)
(* program; the model keeps them exact in HALF pixels (a name ending in 2  *)
(* is a length in half pixels), so that Math.round and the truncation of   *)
(* canvas.width are computed, not assumed.                                 *)
(*                                                                         *)
(* An ImageData is [width, height, data]; data maps the pixel index        *)
(* 0..width*height-1 (the code's byte offset pos divided by 4) to an       *)
(* <<r, g, b, a>> tuple.                                                   *)
(***************************************************************************)
EXTENDS Integers, Sequences, FiniteSets, TLC

(***************************************************************************)
(* Bounds of the model.                                                    *)
(***************************************************************************)
\* Largest number of snapshots held in history and redoHistory together
\* below which a new gesture is started.
MaxSnapshots == 3
\* Largest number of toolbar and layout events (tool, colour, undo, redo,
\* clear, resize, a second pointer-down) handled during one drag.
MaxAsides == 1
\* Number of entries of COLORS (taken from its front) the user picks from.
NumColors == 2
\* Largest k of the "k undos then k redos" law.
MaxK == 3

\* CSS pixels from the element's origin, on each axis, that the pointer
\* reaches
MaxPointer == 2
\* Largest rect.left and rect.top, in half CSS pixels, of the coordinate
\* mapping's element.
MaxOrigin2 == 3

(***************************************************************************)
(* Colours and pixels.                                                     *)
(***************************************************************************)
\* type Tool (part_000:175)
Tools == {"draw", "erase", "line", "rect", "circle", "triangle", "fill"}

ShapeTools == {"line", "rect", "circle", "triangle"}

\* const COLORS (part_000:176); a hex string "#RRGGBB" is the sequence of
\* its six hexadecimal digits.
COLORS ==
  << <<15, 15, 15, 15, 15, 15>>,   \* '#FFFFFF'
     <<0, 0, 0, 0, 0, 0>>,         \* '#000000'
     <<15, 15, 0, 0, 0, 0>>,       \* '#FF0000'
     <<0, 0, 15, 15, 0, 0>>,       \* '#00FF00'
     <<0, 0, 0, 0, 15, 15>>,       \* '#0000FF'
     <<15, 15, 15, 15, 0, 0>> >>   \* '#FFFF00'

Palette == {COLORS[i] : i \in 1..NumColors}

\* hexToRgb (part_000:333-338): parseInt of each pair of digits, alpha 255.
HexToRgb(hex) ==
  << hex[1] * 16 + hex[2], hex[3] * 16 + hex[4], hex[5] * 16 + hex[6], 255 >>

White == <<255, 255, 255, 255>>

\* What 'destination-out' with an opaque stroke leaves: alpha 0, and
\* getImageData reports r = g = b = 0 for a fully transparent pixel.
Transparent == <<0, 0, 0, 0>>

\* data[pos] for a pos outside the Uint8ClampedArray is undefined.  Every
\* comparison the code makes with undefined (=== number, <= number) is
\* false; a channel value above any byte makes the same comparisons false.
Undefined == <<256, 256, 256, 256>>

(***************************************************************************)
(* ImageData and the 2D context's pixel operations.                        *)
(***************************************************************************)
NewImage(w, h, px) ==
  [width |-> w, height |-> h, data |-> [i \in 0..(w * h - 1) |-> px]]

\* data[pos], data[pos+1], data[pos+2], data[pos+3] of a Uint8ClampedArray
DataAt(data, pos) == IF pos \in DOMAIN data THEN data[pos] ELSE Undefined

\* a write to an index outside a typed array is ignored
DataPut(data, pos, px) ==
  IF pos \in DOMAIN data THEN [data EXCEPT ![pos] = px] ELSE data

\* context.getImageData(0, 0, canvas.width, canvas.height): a copy of the
\* buffer.  It throws IndexSizeError when either dimension is 0.
GetImageDataThrows(cv) == cv.width = 0 \/ cv.height = 0

\* context.putImageData(img, 0, 0): the pixels of img at their (x, y), the
\* part outside the canvas dropped, the canvas outside img kept.
PutImageData(cv, img) ==
  [cv EXCEPT !.data =
     [i \in DOMAIN cv.data |->
        LET x == i % cv.width
            y == i \div cv.width
        IN IF x < img.width /\ y < img.height
             THEN img.data[y * img.width + x]
             ELSE cv.data[i]]]

(***************************************************************************)
(* Flood fill (part_000:324-411).                                          *)
(***************************************************************************)
\* Math.round of a coordinate given in half pixels: the nearest integer,
\* a half rounded towards +infinity.
MathRound(v2) == (v2 + 1) \div 2

\* const tolerance (part_000:357)
Tolerance == 64

\* isLine with a strict comparison: a channel equal to the tolerance is
\* not dark
IsLineBelow(data, pos, new) ==
  LET px == DataAt(data, pos)
      isNewLine == px[1] = new[1] /\ px[2] = new[2] /\ px[3] = new[3]
  IN isNewLine \/ (px[1] < Tolerance /\ px[2] < Tolerance /\ px[3] < Tolerance)

\* isLine taking a pixel for a line only if it is not fully transparent
IsLineOpaque(data, pos, new) ==
  LET px == DataAt(data, pos)
      isNewLine == px[1] = new[1] /\ px[2] = new[2] /\ px[3] = new[3]
  IN isNewLine \/ (px[4] > 0 /\ px[1] <= Tolerance /\ px[2] <= Tolerance /\ px[3] <= Tolerance)

\* isLine (part_000:358-366), pos a pixel index, new the fill colour's
\* [r, g, b, a]
IsLine(data, pos, new) ==
  LET px == DataAt(data, pos)
      isNewLine == px[1] = new[1] /\ px[2] = new[2] /\ px[3] = new[3]
  IN isNewLine \/ (px[1] <= Tolerance /\ px[2] <= Tolerance /\ px[3] <= Tolerance)

\* colorPixel (part_000:371-376)
ColorPixel(data, pos, new) == DataPut(data, pos, new)

\* the neighbours with one diagonal step in place of the step down
NeighborsDiagonal(x, y) == << <<x + 1, y>>, <<x - 1, y>>, <<x + 1, y + 1>>, <<x, y - 1>> >>

\* const neighbors (part_000:390)
Neighbors(x, y) == << <<x + 1, y>>, <<x - 1, y>>, <<x, y + 1>>, <<x, y - 1>> >>

\* the for loop over the neighbours marking only the neighbours it does not
\* enqueue
RECURSIVE VisitNeighborsNoMark(_, _, _, _, _)
VisitNeighborsNoMark(nbrs, st, w, h, new) ==
  IF nbrs = <<>> THEN st
  ELSE LET nx == Head(nbrs)[1]
           ny == Head(nbrs)[2]
           fresh == /\ nx >= 0 /\ nx < w
                    /\ ny >= 0 /\ ny < h
                    /\ Head(nbrs) \notin st.visited
           neighborPos == ny * w + nx
           st1 == IF ~fresh THEN st
                  ELSE IF ~IsLine(st.data, neighborPos, new)
                    THEN [st EXCEPT !.queue = Append(@, Head(nbrs))]
                    ELSE [st EXCEPT !.visited = @ \cup {Head(nbrs)}]
       IN VisitNeighborsNoMark(Tail(nbrs), st1, w, h, new)

\* the for loop over the neighbours (part_000:392-406); st is
\* [queue, visited, data]
RECURSIVE VisitNeighbors(_, _, _, _, _)
VisitNeighbors(nbrs, st, w, h, new) ==
  IF nbrs = <<>> THEN st
  ELSE LET nx == Head(nbrs)[1]
           ny == Head(nbrs)[2]
           fresh == /\ nx >= 0 /\ nx < w
                    /\ ny >= 0 /\ ny < h
                    /\ Head(nbrs) \notin st.visited
           neighborPos == ny * w + nx
           st1 == IF ~fresh THEN st
                  ELSE [st EXCEPT
                          !.visited = @ \cup {Head(nbrs)},
                          !.queue = IF ~IsLine(st.data, neighborPos, new)
                                      THEN Append(@, Head(nbrs)) ELSE @]
       IN VisitNeighbors(Tail(nbrs), st1, w, h, new)

\* the while loop over the queue (part_000:384-407)
RECURSIVE FillLoop(_, _, _, _)
FillLoop(st, w, h, new) ==
  IF st.queue = <<>> THEN st
  ELSE LET x == Head(st.queue)[1]
           y == Head(st.queue)[2]
           currentPos == y * w + x
           st1 == [st EXCEPT !.queue = Tail(@),
                             !.data = ColorPixel(@, currentPos, new)]
       IN FillLoop(VisitNeighbors(Neighbors(x, y), st1, w, h, new), w, h, new)

\* the coordinates the while loop (part_000:384-407) takes from the queue,
\* in order: each is one that was pushed, and the loop ends when none is
\* left
RECURSIVE FillOrder(_, _, _, _)
FillOrder(st, w, h, new) ==
  IF st.queue = <<>> THEN <<>>
  ELSE LET x == Head(st.queue)[1]
           y == Head(st.queue)[2]
           currentPos == y * w + x
           st1 == [st EXCEPT !.queue = Tail(@),
                             !.data = ColorPixel(@, currentPos, new)]
       IN <<Head(st.queue)>> \o FillOrder(VisitNeighbors(Neighbors(x, y), st1, w, h, new), w, h, new)

\* floodFill without the return on a seed that is a line
FloodFillNoLineCheck(cv, hex, startX2, startY2) ==
  LET new == HexToRgb(hex)
      sx == MathRound(startX2)
      sy == MathRound(startY2)
      pixelPos == sy * cv.width + sx
      start == DataAt(cv.data, pixelPos)
      sameColour == start[1] = new[1] /\ start[2] = new[2] /\ start[3] = new[3]
      st0 == [queue |-> << <<sx, sy>> >>, visited |-> {<<sx, sy>>}, data |-> cv.data]
  IN IF sameColour
       THEN [saved |-> FALSE, canvas |-> cv]
       ELSE [saved |-> TRUE,
             canvas |-> [cv EXCEPT !.data = FillLoop(st0, cv.width, cv.height, new).data]]

\* floodFill (part_000:324-411) up to its putImageData: [saved, canvas],
\* saved telling whether putImageData and saveState are reached.  The
\* seed is given in half pixels.
FloodFill(cv, hex, startX2, startY2) ==
  LET new == HexToRgb(hex)
      sx == MathRound(startX2)
      sy == MathRound(startY2)
      pixelPos == sy * cv.width + sx
      start == DataAt(cv.data, pixelPos)
      sameColour == start[1] = new[1] /\ start[2] = new[2] /\ start[3] = new[3]
      st0 == [queue |-> << <<sx, sy>> >>, visited |-> {<<sx, sy>>}, data |-> cv.data]
  IN IF sameColour \/ IsLine(cv.data, pixelPos, new)
       THEN [saved |-> FALSE, canvas |-> cv]
       ELSE [saved |-> TRUE,
             canvas |-> [cv EXCEPT !.data = FillLoop(st0, cv.width, cv.height, new).data]]

(***************************************************************************)
(* The 2D context's path and stroke.  The browser's rasteriser is not code *)
(* of the repository: a stroke paints, without anti-aliasing, the cells    *)
(* its path runs through.  A path is [cells, open, drawn]: the cells of    *)
(* the bitmap it runs through, whether it has a subpath, and whether it    *)
(* holds a segment (a path of moveTo alone strokes nothing).               *)
(***************************************************************************)
EmptyPath == [cells |-> {}, open |-> FALSE, drawn |-> FALSE]

\* the cells of a set that lie on the bitmap
Clip(cv, cells) ==
  {c \in cells : c[1] >= 0 /\ c[1] < cv.width /\ c[2] >= 0 /\ c[2] < cv.height}

\* context.beginPath(); context.moveTo(p)
MoveTo(cv, p2) == [cells |-> Clip(cv, {<<p2[1] \div 2, p2[2] \div 2>>}),
                   open |-> TRUE, drawn |-> FALSE]

\* context.lineTo(p): on a path without a subpath it only moves to p
LineTo(cv, path, p2) ==
  IF ~path.open THEN MoveTo(cv, p2)
  ELSE [cells |-> path.cells \cup Clip(cv, {<<p2[1] \div 2, p2[2] \div 2>>}),
        open |-> TRUE, drawn |-> TRUE]

\* the cell a point given in half pixels lies in
Cell(p2) == <<p2[1] \div 2, p2[2] \div 2>>

Min(a, b) == IF a <= b THEN a ELSE b

Max(a, b) == IF a >= b THEN a ELSE b

\* the cells of the bounding box of two cells
Box(a, b) ==
  {<<x, y>> : x \in Min(a[1], b[1])..Max(a[1], b[1]),
              y \in Min(a[2], b[2])..Max(a[2], b[2])}

\* the cells of the segment from a to b: its ends, and the cells between
\* them when it runs along a row or a column
SegmentCells(a, b) ==
  {a, b} \cup (IF a[1] = b[1] \/ a[2] = b[2] THEN Box(a, b) ELSE {})

\* the path drawShape builds (part_000:422-445) from startPos to the end
\* point, both in half pixels; the 0.5 px the code adds is one half pixel
ShapePath(cv, t, start2, end2) ==
  LET s == Cell(<<start2[1] + 1, start2[2] + 1>>)
      e == Cell(<<end2[1] + 1, end2[2] + 1>>)
      \* the triangle's third corner (startX * 2 - endX, endY)
      m == Cell(<<(start2[1] + 1) * 2 - (end2[1] + 1), end2[2] + 1>>)
      dx == e[1] - s[1]
      dy == e[2] - s[2]
      r2 == dx * dx + dy * dy
      span == Max(Max(dx, -dx), Max(dy, -dy))
      ring == {c \in Box(<<s[1] - span - 1, s[2] - span - 1>>,
                         <<s[1] + span + 1, s[2] + span + 1>>) :
                 LET d2 == (c[1] - s[1]) * (c[1] - s[1]) + (c[2] - s[2]) * (c[2] - s[2])
                 IN (d2 - r2) * (d2 - r2) <= r2}
      cells ==
        CASE t = "line" -> SegmentCells(s, e)
          [] t = "rect" ->
               {c \in Box(s, e) : c[1] \in {s[1], e[1]} \/ c[2] \in {s[2], e[2]}}
          [] t = "circle" -> ring
          [] t = "triangle" ->
               SegmentCells(s, e) \cup SegmentCells(e, m) \cup SegmentCells(m, s)
  IN IF t \in {"line", "rect", "circle", "triangle"}
       THEN [cells |-> Clip(cv, cells), open |-> TRUE, drawn |-> TRUE]
       ELSE EmptyPath   \* the switch has no case for draw / erase / fill

\* context.stroke(): ctx is [op, strokeStyle, path]
Stroke(cv, ctx) ==
  LET ink == IF ctx.op = "destination-out" THEN Transparent ELSE HexToRgb(ctx.strokeStyle)
  IN IF ~ctx.path.drawn THEN cv
     ELSE [cv EXCEPT !.data =
             [i \in DOMAIN cv.data |->
                IF <<i % cv.width, i \div cv.width>> \in ctx.path.cells
                  THEN ink ELSE cv.data[i]]]

\* the context state a canvas.width / canvas.height assignment leaves
DefaultContext ==
  [op |-> "source-over", strokeStyle |-> COLORS[2], path |-> EmptyPath]

\* setContextSettings (part_000:307-321); line widths are not modelled
SetContextSettings(ctx, t, c) ==
  IF t = "erase"
    THEN [ctx EXCEPT !.op = "destination-out"]
    ELSE [ctx EXCEPT !.op = "source-over", !.strokeStyle = c]

(***************************************************************************)
(* The component's state.                                                  *)
(***************************************************************************)
VARIABLES
  canvas,       \* the canvas bitmap: canvas.width, canvas.height, pixels
  ctx,          \* the 2D context's state: composite operation, stroke style, path
  rect,         \* <<width, height>> of getBoundingClientRect(), half CSS pixels
  dpr,          \* window.devicePixelRatio
  isDrawing,    \* useState (part_000:200)
  tool,         \* useState (part_000:201)
  color,        \* useState (part_000:203)
  history,      \* useState (part_000:204); historyRef.current follows it
  redoHistory,  \* useState (part_000:205)
  startPos,     \* useState (part_000:208), <<>> for null, else half pixels
  snapshot,     \* useState (part_000:209), NoImage for null
  asides        \* the events other than move and release in the current drag

\* The host (Workspace.tsx) and the encoder between the component and it.
VARIABLES
  mounted,      \* Workspace's isDrawing (Workspace.tsx:29): the component is rendered
  sketchFile,   \* Workspace's sketchFile (Workspace.tsx:28), NoFile for null
  encodes,      \* the toBlob calls the encoder has not answered, oldest first
  session,      \* the number of times the component has been mounted
  completions,  \* the calls of onComplete so far: [session, file]
  cancelled     \* the sessions whose onCancel was called

\* The host's workflow (Workspace.tsx:28-34) and the backend.
VARIABLES
  workflowStep,           \* useState (Workspace.tsx:31)
  isGenerating,           \* useState (Workspace.tsx:30)
  generatedGeometries,    \* useState (Workspace.tsx:32)
  selectedGeometryIndex,  \* useState (Workspace.tsx:33), NoIndex for null
  error,                  \* useState (Workspace.tsx:34), NoError for null
  requests                \* the fetches the backend has not answered: [file]

workflow ==
  <<workflowStep, isGenerating, generatedGeometries, selectedGeometryIndex, error, requests>>

engine ==
  <<canvas, ctx, rect, dpr, isDrawing, tool, color, history, redoHistory,
    startPos, snapshot, asides>>

host ==
  <<mounted, sketchFile, encodes, session, completions, cancelled,
    workflowStep, isGenerating, generatedGeometries, selectedGeometryIndex, error, requests>>

vars ==
  <<canvas, ctx, rect, dpr, isDrawing, tool, color, history, redoHistory,
    startPos, snapshot, asides, mounted, sketchFile, encodes, session,
    completions, cancelled, workflowStep, isGenerating, generatedGeometries,
    selectedGeometryIndex, error, requests>>

NoIndex == -1

NoError == ""

\* the workflow before any sketch is supplied
WorkflowInit ==
  /\ workflowStep = "upload"
  /\ isGenerating = FALSE
  /\ generatedGeometries = <<>>
  /\ selectedGeometryIndex = 0
  /\ error = NoError
  /\ requests = <<>>

NoFile == [name |-> "", type |-> "", content |-> <<>>]

\* the host has rendered the component once, and Done and Cancel have not
\* been pressed
HostInit ==
  /\ mounted = TRUE
  /\ sketchFile = NoFile
  /\ encodes = <<>>
  /\ session = 1
  /\ completions = <<>>
  /\ cancelled = {}
  /\ WorkflowInit

NoPos == <<>>

NoImage == [width |-> -1, height |-> -1, data |-> [i \in {} |-> White]]

(***************************************************************************)
(* What the model forgets.  handleMouseUp leaves the context's settings    *)
(* and path as they are, and, when the tool was changed to the pencil or   *)
(* the eraser during a shape drag, leaves startPos and snapshot set.  The  *)
(* model keeps that such a value is there, not which: once no drag is      *)
(* active the context is RestContext, and a start point and a snapshot     *)
(* left set are SomePos and SomeImage.  A handler that reads a forgotten   *)
(* value reads any value it could hold, so every behaviour of the code is  *)
(* a behaviour of the model.  The settings are never read forgotten:       *)
(* handleMouseDown sets them (part_000:455) before any stroke.  The path   *)
(* is read forgotten by a pencil stroke in a drag begun with a shape tool, *)
(* the start point and the snapshot by a shape preview in a drag begun     *)
(* with the pencil or the eraser.                                          *)
(***************************************************************************)
LeftOverPath == [leftOver |-> TRUE]

RestContext == [op |-> "source-over", strokeStyle |-> COLORS[2], path |-> LeftOverPath]

SomePos == <<-1, -1>>

SomeImage == [width |-> -2, height |-> -2, data |-> [i \in {} |-> White]]

\* contextRef.current before setupCanvas has stored a context: null
NoContext == [none |-> TRUE]

Kept(drawing, cx) == IF drawing \/ cx = NoContext THEN cx ELSE RestContext

\* the values a pixel of the model takes
PixelValues == {White, Transparent} \cup {HexToRgb(c) : c \in Palette}

\* the bitmaps of one size
Bitmaps(w, h) ==
  {[width |-> w, height |-> h, data |-> d] : d \in [0..(w * h - 1) -> PixelValues]}

CellsOf(cv) == (0..(cv.width - 1)) \X (0..(cv.height - 1))

Last(seq) == seq[Len(seq)]

\* the element sizes the layout takes, in half CSS pixels: 1x1, 2x1, a
\* fractional 1.5x1 and a collapsed 0x1
Rects == {<<2, 2>>, <<4, 2>>, <<3, 2>>, <<0, 2>>}

\* the device pixel ratios of the model's screens
DPRs == {1}

\* rect.left and rect.top, in half CSS pixels
RectLeft2 == 2

RectTop2 == 2

\* rect.width * dpr and rect.height * dpr, in half pixels
Required2(r, d) == <<r[1] * d, r[2] * d>>

\* the pointer positions over the element, in half CSS pixels: a mouse
\* event's clientX and clientY are whole CSS pixels
ClientPoints(r) ==
  {c \in (RectLeft2..(RectLeft2 + Min(r[1], 2 * MaxPointer) - 1))
          \X (RectTop2..(RectTop2 + Min(r[2], 2 * MaxPointer) - 1)) :
     c[1] % 2 = 0 /\ c[2] % 2 = 0}

\* getEventCoordinates without the device pixel ratio: CSS pixels
EventCoordinatesUnscaled(event, origin2, d) ==
  IF event.type = "touch" /\ Len(event.touches) > 0
    THEN <<event.touches[1][1] - origin2[1], event.touches[1][2] - origin2[2]>>
    ELSE IF event.type = "mouse"
      THEN <<event.client[1] - origin2[1], event.client[2] - origin2[2]>>
      ELSE <<0, 0>>

\* getEventCoordinates (part_000:284-305) of an event, [type |-> "mouse",
\* client] or [type |-> "touch", touches], for rect.left and rect.top
\* origin2 and the ratio d; positions in half CSS pixels, the result in
\* half pixels
EventCoordinates(event, origin2, d) ==
  IF event.type = "touch" /\ Len(event.touches) > 0
    THEN <<(event.touches[1][1] - origin2[1]) * d, (event.touches[1][2] - origin2[2]) * d>>
    ELSE IF event.type = "mouse"
      THEN <<(event.client[1] - origin2[1]) * d, (event.client[2] - origin2[2]) * d>>
      ELSE <<0, 0>>

\* getEventCoordinates of a mouse event on the element at its place
GetEventCoordinates(client2, d) ==
  EventCoordinates([type |-> "mouse", client |-> client2], <<RectLeft2, RectTop2>>, d)

\* setupCanvas committing the buffer it has restored
SetupCanvasCommits(cv, cx, hist, redo, req2) ==
  IF cv.width * 2 = req2[1] /\ cv.height * 2 = req2[2]
    THEN [canvas |-> cv, ctx |-> cx, history |-> hist, redoHistory |-> redo]
    ELSE LET blank == NewImage(req2[1] \div 2, req2[2] \div 2, White)
         IN IF Len(hist) > 0
              THEN [canvas |-> PutImageData(blank, hist[Len(hist)]), ctx |-> DefaultContext,
                    history |-> IF blank.width = 0 \/ blank.height = 0 THEN hist
                                ELSE Append(hist, PutImageData(blank, hist[Len(hist)])),
                    redoHistory |-> <<>>]
              ELSE IF GetImageDataThrows(blank)
                THEN [canvas |-> blank, ctx |-> DefaultContext,
                      history |-> hist, redoHistory |-> redo]
                ELSE [canvas |-> blank, ctx |-> DefaultContext,
                      history |-> <<blank>>, redoHistory |-> <<>>]

(***************************************************************************)
(* setupCanvas (part_000:221-254).  The result is the new [canvas, ctx,    *)
(* history, redoHistory].  An assignment to canvas.width truncates the     *)
(* number to an integer, clears the bitmap and resets the context.         *)
(* historyRef.current is history: the effect at part_000:213-215 has run   *)
(* by the time a later event is handled.                                   *)
(***************************************************************************)
\* setupCanvas starting history afresh at every change of size
SetupCanvasResetsHistory(cv, cx, hist, redo, req2) ==
  IF cv.width * 2 = req2[1] /\ cv.height * 2 = req2[2]
    THEN [canvas |-> cv, ctx |-> cx, history |-> hist, redoHistory |-> redo]
    ELSE LET blank == NewImage(req2[1] \div 2, req2[2] \div 2, White)
         IN [canvas |-> blank, ctx |-> DefaultContext,
             history |-> <<blank>>, redoHistory |-> <<>>]

\* setupCanvas without the test that a resize is needed
SetupCanvasAlways(cv, cx, hist, redo, req2) ==
  LET blank == NewImage(req2[1] \div 2, req2[2] \div 2, White)
  IN IF Len(hist) > 0
       THEN [canvas |-> PutImageData(blank, Last(hist)), ctx |-> DefaultContext,
             history |-> hist, redoHistory |-> redo]
       ELSE IF GetImageDataThrows(blank)
         THEN [canvas |-> blank, ctx |-> DefaultContext,
               history |-> hist, redoHistory |-> redo]
         ELSE [canvas |-> blank, ctx |-> DefaultContext,
               history |-> <<blank>>, redoHistory |-> <<>>]

\* setupCanvas as in the older components/DrawingCanvas.tsx, which does not
\* paint the last snapshot back
SetupCanvasNoRestore(cv, cx, hist, redo, req2) ==
  IF cv.width * 2 = req2[1] /\ cv.height * 2 = req2[2]
    THEN [canvas |-> cv, ctx |-> cx, history |-> hist, redoHistory |-> redo]
    ELSE [canvas |-> NewImage(req2[1] \div 2, req2[2] \div 2, White),
          ctx |-> DefaultContext, history |-> hist, redoHistory |-> redo]

SetupCanvas(cv, cx, hist, redo, req2) ==
  IF cv.width * 2 = req2[1] /\ cv.height * 2 = req2[2]
    THEN [canvas |-> cv, ctx |-> cx, history |-> hist, redoHistory |-> redo]
    ELSE LET blank == NewImage(req2[1] \div 2, req2[2] \div 2, White)
         IN IF Len(hist) > 0
              THEN [canvas |-> PutImageData(blank, Last(hist)), ctx |-> DefaultContext,
                    history |-> hist, redoHistory |-> redo]
              ELSE IF GetImageDataThrows(blank)
                THEN [canvas |-> blank, ctx |-> DefaultContext,
                      history |-> hist, redoHistory |-> redo]
                ELSE [canvas |-> blank, ctx |-> DefaultContext,
                      history |-> <<blank>>, redoHistory |-> <<>>]

\* the bitmap of a canvas element before any script sizes it
DefaultCanvas == NewImage(300, 150, Transparent)

\* the mount effect (part_000:257-272) has run setupCanvas on an element
\* of non-zero size
\* the element size, in half CSS pixels, that asks for exactly the bitmap a
\* canvas element starts with
DefaultRect == <<2 * DefaultCanvas.width, 2 * DefaultCanvas.height>>

Init ==
  /\ dpr \in DPRs
  /\ rect \in {r \in Rects \cup {DefaultRect} : r[1] * dpr >= 2 /\ r[2] * dpr >= 2}
  /\ LET s == SetupCanvas(DefaultCanvas, NoContext, <<>>, <<>>, Required2(rect, dpr))
     IN /\ canvas = s.canvas
        /\ ctx = Kept(FALSE, s.ctx)
        /\ history = s.history
        /\ redoHistory = s.redoHistory
  /\ isDrawing = FALSE
  /\ tool = "draw"
  /\ color = COLORS[2]
  /\ startPos = NoPos
  /\ snapshot = NoImage
  /\ asides = 0
  /\ HostInit

(***************************************************************************)
(* History.  Each operator gives the new [canvas, history, redoHistory].   *)
(***************************************************************************)
Engine(cv, hist, redo) == [canvas |-> cv, history |-> hist, redoHistory |-> redo]

\* saveState without setRedoHistory([])
SaveStateKeepsRedo(cv, hist, redo) == Engine(cv, Append(hist, cv), redo)

\* saveState skipping a buffer equal to the last snapshot
SaveStateSkipsSame(cv, hist, redo) ==
  IF hist # <<>> /\ hist[Len(hist)] = cv
    THEN [canvas |-> cv, history |-> hist, redoHistory |-> redo]
    ELSE [canvas |-> cv, history |-> Append(hist, cv), redoHistory |-> <<>>]

\* saveState (part_000:275-282), where getImageData does not throw
SaveState(cv, hist, redo) == Engine(cv, Append(hist, cv), <<>>)

\* handleUndo putting the undone snapshot at the far end of redoHistory
UndoResultPushesBack(cv, hist, redo) ==
  IF Len(hist) <= 1 THEN Engine(cv, hist, redo)
  ELSE LET newHistory == SubSeq(hist, 1, Len(hist) - 1)
       IN Engine(PutImageData(cv, Last(newHistory)), newHistory, Append(redo, Last(hist)))

\* handleUndo returning only on an empty history: the first entry is popped
\* and putImageData(undefined) throws before it paints
UndoResultNoFloor(cv, hist, redo) ==
  IF Len(hist) = 0 THEN Engine(cv, hist, redo)
  ELSE LET lastState == Last(hist)
           newHistory == SubSeq(hist, 1, Len(hist) - 1)
       IN Engine(IF newHistory = <<>> THEN cv ELSE PutImageData(cv, Last(newHistory)),
                 newHistory, <<lastState>> \o redo)

\* handleUndo (part_000:503-511)
UndoResult(cv, hist, redo) ==
  IF Len(hist) <= 1 THEN Engine(cv, hist, redo)
  ELSE LET lastState == Last(hist)
           newHistory == SubSeq(hist, 1, Len(hist) - 1)
           prevState == Last(newHistory)
       IN Engine(PutImageData(cv, prevState), newHistory, <<lastState>> \o redo)

\* handleRedo taking the oldest undone snapshot, the far end of redoHistory
RedoResultWrongEnd(cv, hist, redo) ==
  IF Len(redo) = 0 THEN Engine(cv, hist, redo)
  ELSE Engine(PutImageData(cv, Last(redo)), Append(hist, Last(redo)),
              SubSeq(redo, 1, Len(redo) - 1))

\* handleRedo (part_000:513-520)
RedoResult(cv, hist, redo) ==
  IF Len(redo) = 0 THEN Engine(cv, hist, redo)
  ELSE LET nextState == redo[1]
           newRedoHistory == SubSeq(redo, 2, Len(redo))
       IN Engine(PutImageData(cv, nextState), Append(hist, nextState), newRedoHistory)

\* handleClear (part_000:522-529): setupCanvas, canvas and context being set
ClearResult(cv, cx, hist, redo, req2) == SetupCanvas(cv, cx, hist, redo, req2)

(***************************************************************************)
(* The handlers.                                                           *)
(***************************************************************************)
\* the tool buttons (part_000:545-565)
SetTool(t) ==
  /\ tool' = t
  /\ UNCHANGED <<canvas, ctx, rect, dpr, isDrawing, color, history, redoHistory,
                 startPos, snapshot>>

\* the colour buttons (part_000:569-579)
SetColor(c) ==
  /\ color' = c
  /\ UNCHANGED <<canvas, ctx, rect, dpr, isDrawing, tool, history, redoHistory,
                 startPos, snapshot>>

\* the fill branch saving whether or not floodFill painted
FillResultAlwaysSaves(cv, hist, redo, c, p) ==
  IF GetImageDataThrows(cv) THEN Engine(cv, hist, redo)
  ELSE SaveState(FloodFill(cv, c, p[1], p[2]).canvas, hist, redo)

\* the fill branch of handleMouseDown (part_000:457-460): the new
\* [canvas, history, redoHistory]; p is the seed in half pixels.  Nothing
\* changes when floodFill's getImageData throws.
FillResult(cv, hist, redo, c, p) ==
  IF GetImageDataThrows(cv) THEN Engine(cv, hist, redo)
  ELSE LET f == FloodFill(cv, c, p[1], p[2])
       IN IF f.saved THEN SaveState(f.canvas, hist, redo) ELSE Engine(cv, hist, redo)

\* handleMouseDown (part_000:450-474), bound to mousedown and touchstart
HandleMouseDown(client2) ==
  IF ctx = NoContext
    THEN UNCHANGED <<canvas, ctx, rect, dpr, isDrawing, tool, color, history, redoHistory,
                     startPos, snapshot>>
    ELSE
    LET p == GetEventCoordinates(client2, dpr)
        ctx1 == SetContextSettings(ctx, tool, color)
    IN /\ IF tool = "fill"
            THEN LET s == FillResult(canvas, history, redoHistory, color, p)
                 IN /\ ctx' = Kept(isDrawing, ctx1)
                    /\ canvas' = s.canvas
                    /\ history' = s.history
                    /\ redoHistory' = s.redoHistory
                    /\ UNCHANGED <<isDrawing, startPos, snapshot>>
            ELSE /\ isDrawing' = TRUE
                 /\ UNCHANGED <<canvas, history, redoHistory>>
                 /\ IF tool \in {"draw", "erase"}
                      THEN /\ ctx' = [ctx1 EXCEPT !.path = MoveTo(canvas, p)]
                           /\ UNCHANGED <<startPos, snapshot>>
                      ELSE /\ ctx' = ctx1
                           /\ IF GetImageDataThrows(canvas)
                                THEN UNCHANGED <<startPos, snapshot>>
                                ELSE /\ snapshot' = canvas
                                     /\ startPos' = p
       /\ UNCHANGED <<rect, dpr, tool, color>>

\* drawShape without putImageData(snapshot, 0, 0): the previews add up
DrawShapeNoRestore(cv, cx, t, c, start2, snap, end2) ==
  LET cx1 == [SetContextSettings(cx, t, c) EXCEPT !.path = ShapePath(cv, t, start2, end2)]
  IN [canvas |-> Stroke(cv, cx1), ctx |-> cx1]

\* drawShape (part_000:413-447) with startPos and snapshot known: the new
\* [canvas, ctx]
DrawShape(cv, cx, t, c, start2, snap, end2) ==
  LET cx1 == [SetContextSettings(cx, t, c) EXCEPT !.path = ShapePath(cv, t, start2, end2)]
  IN [canvas |-> Stroke(PutImageData(cv, snap), cx1), ctx |-> cx1]

\* handleMouseMove (part_000:488-501), bound to mousemove and touchmove
HandleMouseMove(client2) ==
  LET p == GetEventCoordinates(client2, dpr)
  IN /\ IF ~isDrawing \/ tool = "fill"
          THEN UNCHANGED <<canvas, ctx>>
          ELSE IF tool \in {"draw", "erase"}
            THEN \E path \in IF ctx.path = LeftOverPath
                               THEN {LineTo(canvas, [cells |-> S, open |-> o, drawn |-> o], p) :
                                       S \in SUBSET CellsOf(canvas), o \in BOOLEAN}
                               ELSE {LineTo(canvas, ctx.path, p)} :
                   /\ ctx' = [ctx EXCEPT !.path = path]
                   /\ canvas' = Stroke(canvas, ctx')
            ELSE IF startPos = NoPos \/ snapshot = NoImage
              THEN UNCHANGED <<canvas, ctx>>
              ELSE IF startPos = SomePos
                THEN \E img \in Bitmaps(canvas.width, canvas.height),
                        S \in SUBSET CellsOf(canvas) :
                       /\ canvas' = img
                       /\ ctx' = [SetContextSettings(ctx, tool, color) EXCEPT
                                    !.path = [cells |-> S, open |-> TRUE, drawn |-> TRUE]]
                ELSE LET d == DrawShape(canvas, ctx, tool, color, startPos, snapshot, p)
                     IN /\ ctx' = d.ctx
                        /\ canvas' = d.canvas
     /\ UNCHANGED <<rect, dpr, isDrawing, tool, color, history, redoHistory,
                    startPos, snapshot>>

\* handleMouseUp (part_000:476-486), bound to mouseup, mouseleave and
\* touchend.  When saveState throws, setIsDrawing(false) is not reached.
HandleMouseUp ==
  /\ IF isDrawing
       THEN IF GetImageDataThrows(canvas)
              THEN /\ IF tool \notin {"draw", "erase"}
                        THEN startPos' = NoPos /\ snapshot' = NoImage
                        ELSE UNCHANGED <<startPos, snapshot>>
                   /\ UNCHANGED <<history, redoHistory, isDrawing, ctx>>
              ELSE LET s == SaveState(canvas, history, redoHistory)
                   IN /\ IF tool \notin {"draw", "erase"} \/ startPos = NoPos
                           THEN startPos' = NoPos /\ snapshot' = NoImage
                           ELSE startPos' = SomePos /\ snapshot' = SomeImage
                      /\ history' = s.history
                      /\ redoHistory' = s.redoHistory
                      /\ isDrawing' = FALSE
                      /\ ctx' = Kept(FALSE, ctx)
       ELSE UNCHANGED <<startPos, snapshot, history, redoHistory, isDrawing, ctx>>
  /\ UNCHANGED <<canvas, rect, dpr, tool, color>>

\* the Undo button
HandleUndo ==
  LET s == UndoResult(canvas, history, redoHistory)
  IN /\ canvas' = s.canvas
     /\ history' = s.history
     /\ redoHistory' = s.redoHistory
     /\ UNCHANGED <<ctx, rect, dpr, isDrawing, tool, color, startPos, snapshot>>

\* the Redo button
HandleRedo ==
  LET s == RedoResult(canvas, history, redoHistory)
  IN /\ canvas' = s.canvas
     /\ history' = s.history
     /\ redoHistory' = s.redoHistory
     /\ UNCHANGED <<ctx, rect, dpr, isDrawing, tool, color, startPos, snapshot>>

\* the Clear button
HandleClear ==
  LET s == IF ctx = NoContext
             THEN [canvas |-> canvas, ctx |-> ctx, history |-> history,
                   redoHistory |-> redoHistory]
             ELSE ClearResult(canvas, ctx, history, redoHistory, Required2(rect, dpr))
  IN /\ canvas' = s.canvas
     /\ ctx' = Kept(isDrawing, s.ctx)
     /\ history' = s.history
     /\ redoHistory' = s.redoHistory
     /\ UNCHANGED <<rect, dpr, isDrawing, tool, color, startPos, snapshot>>

\* the layout gives the element another size and the ResizeObserver
\* callback (part_000:261-263) runs setupCanvas
Resize(r) ==
  LET s == SetupCanvas(canvas, ctx, history, redoHistory, Required2(r, dpr))
  IN /\ r # rect
     /\ rect' = r
     /\ canvas' = s.canvas
     /\ ctx' = Kept(isDrawing, s.ctx)
     /\ history' = s.history
     /\ redoHistory' = s.redoHistory
     /\ UNCHANGED <<dpr, isDrawing, tool, color, startPos, snapshot>>

\* the model's bound on the events handled during one drag
Aside ==
  /\ isDrawing => asides < MaxAsides
  /\ asides' = IF isDrawing THEN asides + 1 ELSE 0

\* the model's bound on the snapshots held
Room == Len(history) + Len(redoHistory) < MaxSnapshots

Next ==
  \/ \E t \in Tools : SetTool(t) /\ Aside /\ UNCHANGED host
  \/ \E c \in Palette : SetColor(c) /\ Aside /\ UNCHANGED host
  \/ \E p \in ClientPoints(rect) : Room /\ HandleMouseDown(p) /\ Aside /\ UNCHANGED host
  \/ \E p \in ClientPoints(rect) : HandleMouseMove(p) /\ UNCHANGED asides /\ UNCHANGED host
  \/ HandleMouseUp /\ asides' = (IF isDrawing' THEN asides ELSE 0) /\ UNCHANGED host
  \/ HandleUndo /\ Aside /\ UNCHANGED host
  \/ HandleRedo /\ Aside /\ UNCHANGED host
  \/ HandleClear /\ Aside /\ UNCHANGED host
  \/ \E r \in Rects : Resize(r) /\ Aside /\ UNCHANGED host

Spec == Init /\ [][Next]_vars

(***************************************************************************)
(* Properties of the history.                                              *)
(***************************************************************************)
\* the engine's [canvas, history, redoHistory] in the current state
Eng == Engine(canvas, history, redoHistory)

RECURSIVE UndoN(_, _)
UndoN(e, k) ==
  IF k = 0 THEN e ELSE UndoN(UndoResult(e.canvas, e.history, e.redoHistory), k - 1)

RECURSIVE RedoN(_, _)
RedoN(e, k) ==
  IF k = 0 THEN e ELSE RedoN(RedoResult(e.canvas, e.history, e.redoHistory), k - 1)

\* every snapshot of history has the buffer's dimensions, as on a canvas
\* whose size never changed
SameSize ==
  \A i \in 1..Len(history) :
    history[i].width = canvas.width /\ history[i].height = canvas.height

\* the pixel of an image at a cell, Undefined outside it
PixelAt(img, c) ==
  IF c[1] >= 0 /\ c[1] < img.width /\ c[2] >= 0 /\ c[2] < img.height
    THEN img.data[c[2] * img.width + c[1]] ELSE Undefined

\* C1: on a canvas of fixed size, after committed operations (no drag
\* active, nothing to redo), k undos followed by k redos give back the
\* buffer and the history, for every k >= 1, the undos past the first
\* entry and the redos past the emptied stack being no-ops.
C1_UndoRedoInverse ==
  (~isDrawing /\ redoHistory = <<>> /\ SameSize) =>
    \A k \in 1..MaxK :
      LET r == RedoN(UndoN(Eng, k), k)
      IN r.canvas = canvas /\ r.history = history /\ r.redoHistory = <<>>

\* three different snapshots committed, nothing to redo: two undos and two
\* redos act, a third of each is a no-op
C1_Witness ==
  /\ ~isDrawing /\ redoHistory = <<>> /\ SameSize
  /\ Len(history) = 3
  /\ history[1] # history[2] /\ history[2] # history[3] /\ history[1] # history[3]
  /\ UndoN(Eng, 2).canvas = history[1]

\* C2: whenever no drag is active the buffer shows the last history entry:
\* the entry's pixels where the entry has them, white where the buffer is
\* larger than the entry.
C2_BufferIsLastEntry ==
  (~isDrawing /\ Len(history) > 0) =>
    \A c \in CellsOf(canvas) :
      PixelAt(canvas, c) =
        IF PixelAt(Last(history), c) = Undefined THEN White ELSE PixelAt(Last(history), c)

\* a step that commits a drawing operation: a pointer release that saves,
\* or a fill that paints
Commits ==
  \/ HandleMouseUp /\ history' # history
  \/ \E p \in ClientPoints(rect) : HandleMouseDown(p) /\ tool = "fill" /\ history' # history

\* C3: a drawing operation committed while the redo stack is not empty
\* leaves it empty, and a redo then changes neither buffer nor history.
C3_RedoInvalidation ==
  [][(redoHistory # <<>> /\ Commits) =>
       /\ redoHistory' = <<>>
       /\ RedoResult(canvas', history', redoHistory') =
            Engine(canvas', history', redoHistory')]_vars

\* after an undo, a stroke is on the buffer and not yet committed
C3_Witness ==
  /\ redoHistory # <<>> /\ isDrawing /\ tool = "draw"
  /\ canvas # Last(history) /\ ~GetImageDataThrows(canvas)

\* C4: undo with exactly one history entry changes neither the buffer,
\* the history nor the redo stack.
C4_UndoFloor == Len(history) = 1 => UndoResult(canvas, history, redoHistory) = Eng

\* an undo has taken history down to its first entry
C4_Witness == Len(history) = 1 /\ redoHistory # <<>> /\ canvas = history[1]

\* C5: Clear on an element that is not collapsed leaves an all-white
\* buffer, a history of that one blank snapshot and an empty redo stack.
C5_ClearResets ==
  (Required2(rect, dpr)[1] >= 2 /\ Required2(rect, dpr)[2] >= 2) =>
    LET s == ClearResult(canvas, ctx, history, redoHistory, Required2(rect, dpr))
    IN /\ \A c \in CellsOf(s.canvas) : PixelAt(s.canvas, c) = White
       /\ s.history = <<s.canvas>>
       /\ s.redoHistory = <<>>

\* the dimensions setupCanvas gives the buffer for an element size
NewSize(r) == <<Required2(r, dpr)[1] \div 2, Required2(r, dpr)[2] \div 2>>

\* the element takes a size that makes the buffer larger
Grows(r) ==
  /\ NewSize(r)[1] >= canvas.width /\ NewSize(r)[2] >= canvas.height
  /\ NewSize(r) # <<canvas.width, canvas.height>>

\* C10 as claimed: after a resize to larger dimensions with history not
\* empty, the buffer is the last snapshot on the intersection of the old
\* and the new bounds and white everywhere else.
C10_OldBounds ==
  \A r \in Rects :
    (Len(history) > 0 /\ Grows(r)) =>
      LET s == SetupCanvas(canvas, ctx, history, redoHistory, Required2(r, dpr))
      IN \A c \in CellsOf(s.canvas) :
           PixelAt(s.canvas, c) =
             IF c \in CellsOf(canvas) /\ PixelAt(Last(history), c) # Undefined
               THEN PixelAt(Last(history), c) ELSE White

\* C10 amended: the buffer is the last snapshot wherever the snapshot has
\* a pixel within the new bounds, and white everywhere else.
C10_SnapshotBounds ==
  \A r \in Rects :
    (Len(history) > 0 /\ Grows(r)) =>
      LET s == SetupCanvas(canvas, ctx, history, redoHistory, Required2(r, dpr))
      IN /\ <<s.canvas.width, s.canvas.height>> = NewSize(r)
         /\ \A c \in CellsOf(s.canvas) :
              PixelAt(s.canvas, c) =
                IF PixelAt(Last(history), c) # Undefined
                  THEN PixelAt(Last(history), c) ELSE White

\* a resize has made the buffer wider than the last snapshot, which holds
\* a stroke
C10_Witness ==
  /\ Len(history) > 1
  /\ canvas.width > Last(history).width /\ Last(history).width > 0
  /\ PixelAt(Last(history), <<0, 0>>) # White
  /\ PixelAt(canvas, <<0, 0>>) = PixelAt(Last(history), <<0, 0>>)
  /\ PixelAt(canvas, <<canvas.width - 1, 0>>) = White

(***************************************************************************)
(* The paint bucket on its own.  The canvas starts with any bitmap of a    *)
(* few small sizes, committed on top of the blank entry, the fill tool     *)
(* selected and possibly a blank snapshot undone.  Its pixels include the  *)
(* shades an anti-aliased stroke leaves around the tolerance, and pixels   *)
(* of zero alpha.  The element's origin may lie at a fraction of a CSS     *)
(* pixel, so the pointer is anywhere on the half-pixel grid inside the     *)
(* element.                                                                *)
(***************************************************************************)
Black == <<0, 0, 0, 255>>
Grey64 == <<64, 64, 64, 255>>
Mixed == <<64, 65, 0, 255>>
FillPixels == {White, Black, Grey64, Mixed, Transparent}

FillSizes == {<<2, 1>>, <<3, 1>>, <<2, 2>>}

FillBitmaps ==
  UNION {{[width |-> z[1], height |-> z[2], data |-> d] :
            d \in [0..(z[1] * z[2] - 1) -> FillPixels]} : z \in FillSizes}

FillPoints(r) ==
  (RectLeft2..(RectLeft2 + r[1] - 1)) \X (RectTop2..(RectTop2 + r[2] - 1))

InitFill ==
  /\ dpr = 1
  /\ canvas \in FillBitmaps
  /\ rect = <<2 * canvas.width, 2 * canvas.height>>
  /\ ctx = RestContext
  /\ history = <<NewImage(canvas.width, canvas.height, White), canvas>>
  /\ redoHistory \in {<<>>, <<NewImage(canvas.width, canvas.height, White)>>}
  /\ isDrawing = FALSE
  /\ tool = "fill"
  /\ color = COLORS[2]
  /\ startPos = NoPos
  /\ snapshot = NoImage
  /\ asides = 0
  /\ HostInit

NextFill ==
  \/ \E c \in Palette : SetColor(c) /\ Aside /\ UNCHANGED host
  \/ \E p \in FillPoints(rect) : Room /\ HandleMouseDown(p) /\ Aside /\ UNCHANGED host

SpecFill == InitFill /\ [][NextFill]_vars

(***************************************************************************)
(* Properties of the flood fill.                                           *)
(***************************************************************************)
\* a pixel is a boundary for a fill colour: none of its red, green and
\* blue channels is above the tolerance, or the three equal the colour's
Boundary(px, new) ==
  \/ px[1] <= Tolerance /\ px[2] <= Tolerance /\ px[3] <= Tolerance
  \/ px[1] = new[1] /\ px[2] = new[2] /\ px[3] = new[3]

\* the cell floodFill rounds a point to
SeedCell(p) == <<MathRound(p[1]), MathRound(p[2])>>

\* the points a pointer inside the element gives floodFill
SeedPoints == {GetEventCoordinates(c, dpr) : c \in FillPoints(rect)}

Adjacent(c, d) ==
  \/ c[1] = d[1] /\ (c[2] = d[2] + 1 \/ c[2] = d[2] - 1)
  \/ c[2] = d[2] /\ (c[1] = d[1] + 1 \/ c[1] = d[1] - 1)

\* the cells reached from those of S by 4-connected steps through cells of
\* the bitmap that are not boundary pixels
RECURSIVE Reach(_, _, _)
Reach(cv, new, S) ==
  LET T == S \cup {c \in CellsOf(cv) :
                     /\ ~Boundary(PixelAt(cv, c), new)
                     /\ \E d \in S : Adjacent(c, d)}
  IN IF T = S THEN S ELSE Reach(cv, new, T)

\* the cells a fill changed
Changed(before, after) == {c \in CellsOf(before) : PixelAt(after, c) # PixelAt(before, c)}

\* C6: from a seed inside the buffer that is not a boundary pixel, the
\* fill changes exactly the cells reached from the seed by 4-connected
\* steps through non-boundary pixels, each to the fill colour at full
\* opacity, leaves every other pixel as it was, and is committed; steps
\* stop at the buffer's edge and do not run on into the next row.
C6_FillRegion ==
  \A p \in SeedPoints :
    LET new == HexToRgb(color)
        f == FloodFill(canvas, color, p[1], p[2])
        R == Reach(canvas, new, {SeedCell(p)})
    IN (SeedCell(p) \in CellsOf(canvas) /\ ~Boundary(PixelAt(canvas, SeedCell(p)), new)) =>
         /\ f.saved
         /\ Changed(canvas, f.canvas) = R
         /\ <<f.canvas.width, f.canvas.height>> = <<canvas.width, canvas.height>>
         /\ \A c \in CellsOf(canvas) :
              PixelAt(f.canvas, c) = IF c \in R THEN new ELSE PixelAt(canvas, c)

\* a fill has painted one cell of the top row of a 2x2 bitmap and stopped
\* at the edge: the first cell of the next row is not a boundary pixel and
\* was left alone, the cell below the painted one being a boundary pixel
C6_Witness ==
  /\ Len(history) = 3 /\ canvas = history[3] /\ canvas.width = 2 /\ canvas.height = 2
  /\ Changed(history[2], canvas) = {<<1, 0>>}
  /\ PixelAt(canvas, <<1, 0>>) = HexToRgb(color)
  /\ ~Boundary(PixelAt(canvas, <<0, 1>>), HexToRgb(color))
  /\ Boundary(PixelAt(canvas, <<1, 1>>), HexToRgb(color))

\* C7: after a fill that painted, a second fill with the same colour seeded
\* on any cell the first one painted leaves the buffer, the history and the
\* redo stack as the first fill left them.
C7_FillIdempotent ==
  \A p \in SeedPoints :
    LET e1 == FillResult(canvas, history, redoHistory, color, p)
        painted == Changed(canvas, e1.canvas)
    IN e1.history # history =>
         \A q \in {r \in SeedPoints : SeedCell(r) \in painted} :
           FillResult(e1.canvas, e1.history, e1.redoHistory, color, q) = e1

\* a fill has painted two cells or more and is the last entry of history
C7_Witness ==
  /\ Len(history) = 3 /\ canvas = history[3] /\ redoHistory = <<>>
  /\ Cardinality(Changed(history[2], canvas)) >= 2
  /\ \A c \in Changed(history[2], canvas) : PixelAt(canvas, c) = HexToRgb(color)

\* C8: a fill whose seed pixel is a boundary pixel leaves the buffer, the
\* history and the redo stack unchanged.
C8_FillOnBoundary ==
  \A p \in SeedPoints :
    (/\ SeedCell(p) \in CellsOf(canvas)
     /\ Boundary(PixelAt(canvas, SeedCell(p)), HexToRgb(color))) =>
      FillResult(canvas, history, redoHistory, color, p) = Eng

\* a white fill has painted a pixel and stopped at its neighbour, a dark
\* pixel that is not of the fill colour: a seed on it is on a boundary
C8_Witness ==
  /\ Len(history) = 3 /\ canvas = history[3] /\ color = COLORS[1]
  /\ PixelAt(canvas, <<0, 0>>) = Grey64
  /\ PixelAt(history[2], <<1, 0>>) = Mixed /\ PixelAt(canvas, <<1, 0>>) = White
  /\ FillResult(canvas, history, redoHistory, color, <<0, 0>>) = Eng

\* C9 as claimed: isLine holds of a pixel exactly if each of its red, green
\* and blue channels is below the tolerance 64, or the three equal the
\* fill colour's.
C9_BelowThreshold ==
  \A pos \in DOMAIN canvas.data : \A c \in Palette :
    LET px == canvas.data[pos]
        new == HexToRgb(c)
    IN IsLine(canvas.data, pos, new) <=>
         \/ px[1] < Tolerance /\ px[2] < Tolerance /\ px[3] < Tolerance
         \/ px[1] = new[1] /\ px[2] = new[2] /\ px[3] = new[3]

\* C9 amended: isLine holds of a pixel exactly if each of its red, green
\* and blue channels is at most the tolerance 64, or the three equal the
\* fill colour's.
C9_AtMostThreshold ==
  \A pos \in DOMAIN canvas.data : \A c \in Palette :
    LET px == canvas.data[pos]
        new == HexToRgb(c)
    IN IsLine(canvas.data, pos, new) <=>
         \/ px[1] <= Tolerance /\ px[2] <= Tolerance /\ px[3] <= Tolerance
         \/ px[1] = new[1] /\ px[2] = new[2] /\ px[3] = new[3]

\* a fill has painted a pixel and stopped at its neighbour, whose channels
\* all equal the tolerance
C9_Witness ==
  /\ Len(history) = 3 /\ canvas = history[3]
  /\ PixelAt(history[2], <<0, 0>>) = Mixed /\ PixelAt(canvas, <<0, 0>>) = HexToRgb(color)
  /\ PixelAt(canvas, <<1, 0>>) = Grey64

\* C18: a fill whose rounded seed lies outside the buffer changes no pixel
\* and appends nothing to history.
C18_SeedOutsideNoOp ==
  \A p \in SeedPoints :
    SeedCell(p) \notin CellsOf(canvas) =>
      FillResult(canvas, history, redoHistory, color, p) = Eng

\* C22: a pointer-down with the fill tool starts no drag, so the moves and
\* the release after it do nothing; when it paints, history grows by the
\* painted buffer alone and one undo gives the buffer back as it was; when
\* it paints nothing, history does not grow.
C22_FillOneShot ==
  [][\A p \in FillPoints(rect) :
       (tool = "fill" /\ ~isDrawing /\ HandleMouseDown(p)) =>
         /\ ~isDrawing' /\ startPos' = startPos /\ snapshot' = snapshot
         /\ IF canvas' # canvas
              THEN /\ history' = Append(history, canvas')
                   /\ UndoResult(canvas', history', redoHistory').canvas = canvas
              ELSE history' = history]_vars

\* the coordinates a fill of the buffer from p takes from its queue
Enqueued(p) ==
  LET seed == SeedCell(p)
  IN FillOrder([queue |-> <<seed>>, visited |-> {seed}, data |-> canvas.data],
               canvas.width, canvas.height, HexToRgb(color))

\* C24: a fill from any seed ends, it takes no coordinate from its queue
\* twice, and it paints no more pixels than the buffer has.
C24_FillTerminates ==
  \A p \in SeedPoints :
    LET order == Enqueued(p)
        f == FloodFill(canvas, color, p[1], p[2])
    IN /\ \A i, j \in DOMAIN order : order[i] = order[j] => i = j
       /\ Cardinality({i \in DOMAIN order : order[i] \in CellsOf(canvas)})
            <= canvas.width * canvas.height
       /\ Cardinality(Changed(canvas, f.canvas)) <= Len(order)
       /\ <<f.canvas.width, f.canvas.height>> = <<canvas.width, canvas.height>>

\* a fill has painted the four pixels of a 2x2 buffer black from white,
\* the last of them a neighbour of two pixels painted before it
C24_Witness ==
  /\ canvas.width = 2 /\ canvas.height = 2
  /\ \A c \in CellsOf(canvas) : PixelAt(canvas, c) = Black
  /\ Len(history) = 3 /\ history[3] = canvas
  /\ \A c \in CellsOf(canvas) : PixelAt(history[2], c) = White

\* C26: the seed floodFill rounds a pointer position inside the element to
\* is a pixel of the buffer.
C26_SeedInBounds == \A p \in SeedPoints : SeedCell(p) \in CellsOf(canvas)

(***************************************************************************)
(* Properties of mounting and of the reconciliation of the buffer's size.  *)
(***************************************************************************)
\* the buffer has exactly the physical pixel dimensions an element size asks for
SizeMet(r) == Required2(r, dpr) = <<2 * canvas.width, 2 * canvas.height>>

C12_InitialState ==
  Init =>
    /\ <<canvas.width, canvas.height>> = NewSize(rect)
    /\ \A c \in CellsOf(canvas) : PixelAt(canvas, c) = White
    /\ history = <<canvas>>
    /\ redoHistory = <<>>
    /\ ~isDrawing

\* every pixel of an image is white
AllWhite(img) == \A i \in DOMAIN img.data : img.data[i] = White

\* C13: a mount that succeeds leaves history with its first, blank entry;
\* from then on, in every state, history is not empty and its first entry
\* is all white, and no step (undo, redo, commit, fill, resize, clear)
\* removes or replaces the first entry.
C13_FirstEntry ==
  /\ [](Len(history) > 0 => AllWhite(history[1]))
  /\ [][Len(history) > 0 => (Len(history') > 0 /\ history'[1] = history[1])]_vars

\* commits, undos back to the first entry and a resize have happened: the
\* first entry is still the blank of the size the engine mounted at
C13_Witness ==
  /\ Len(history) = 1 /\ Len(redoHistory) = 2 /\ ~isDrawing
  /\ redoHistory[1] # history[1]
  /\ <<canvas.width, canvas.height>> # <<history[1].width, history[1].height>>
  /\ canvas.width > 0

\* the buffer shows an image: every pixel the image has within the buffer
Shows(cv, img) ==
  \A c \in CellsOf(cv) : PixelAt(img, c) # Undefined => PixelAt(cv, c) = PixelAt(img, c)

\* C14: with more than one history entry, undo removes the last entry,
\* puts it at the front of the redo stack and paints the new last entry;
\* with a non-empty redo stack, redo removes its front entry, appends it to
\* history and paints it; redo on an empty redo stack changes nothing; both
\* keep the concatenation of history and redo stack.
C14_StackSemantics ==
  LET u == UndoResult(canvas, history, redoHistory)
      r == RedoResult(canvas, history, redoHistory)
  IN /\ Len(history) > 1 =>
          /\ u.history = SubSeq(history, 1, Len(history) - 1)
          /\ u.redoHistory = <<Last(history)>> \o redoHistory
          /\ <<u.canvas.width, u.canvas.height>> = <<canvas.width, canvas.height>>
          /\ Shows(u.canvas, history[Len(history) - 1])
     /\ Len(redoHistory) > 0 =>
          /\ r.history = Append(history, redoHistory[1])
          /\ r.redoHistory = Tail(redoHistory)
          /\ <<r.canvas.width, r.canvas.height>> = <<canvas.width, canvas.height>>
          /\ Shows(r.canvas, redoHistory[1])
     /\ Len(redoHistory) = 0 => r = Eng
     /\ u.history \o u.redoHistory = history \o redoHistory
     /\ r.history \o r.redoHistory = history \o redoHistory

\* two entries in history and one undone, all different: undo and redo
\* both act
C14_Witness ==
  /\ ~isDrawing /\ Len(history) = 2 /\ Len(redoHistory) = 1 /\ canvas = history[2]
  /\ history[1] # history[2] /\ history[2] # redoHistory[1] /\ history[1] # redoHistory[1]

\* the observed size is zero in a dimension
ZeroSized(r) == r[1] = 0 \/ r[2] = 0

\* C17: when the size observed is zero in a dimension, the reconciliation
\* is a no-op: buffer, history and redo stack are as they were.
C17_ZeroSizeDeferred ==
  [][\A r \in Rects : (ZeroSized(r) /\ Resize(r)) =>
        (canvas' = canvas /\ history' = history /\ redoHistory' = redoHistory)]_vars

\* C27: a resize that changes the buffer's dimensions while history is not
\* empty leaves history and the redo stack as they are, so that the undos
\* and the redos there were before it are there after it.
C27_ResizeKeepsStacks ==
  [][\A r \in Rects :
       (Resize(r) /\ Len(history) > 0
          /\ <<canvas'.width, canvas'.height>> # <<canvas.width, canvas.height>>) =>
         /\ history' = history
         /\ redoHistory' = redoHistory
         /\ \A k \in 0..MaxSnapshots :
              /\ UndoN(Engine(canvas', history', redoHistory'), k).history
                   = UndoN(Eng, k).history
              /\ RedoN(Engine(canvas', history', redoHistory'), k).redoHistory
                   = RedoN(Eng, k).redoHistory]_vars

\* a resize has changed the buffer's width while an undo and a redo were
\* there: they still are
C27_Witness ==
  /\ ~isDrawing /\ Len(history) = 2 /\ Len(redoHistory) = 1
  /\ canvas.width > 0 /\ canvas.width # Last(history).width
  /\ history[1] # history[2] /\ redoHistory[1] # history[2]

(***************************************************************************)
(* Properties of the gestures.                                             *)
(***************************************************************************)
\* an image with one shape of a tool and a colour stroked on it from S to F
OneShape(img, t, c, S, F) ==
  Stroke(img, [op |-> "source-over", strokeStyle |-> c, path |-> ShapePath(img, t, S, F)])

\* a drag of a shape tool whose start point and snapshot are those of its
\* pointer-down, on a buffer of the snapshot's size
ShapeDrag ==
  /\ isDrawing /\ tool \in ShapeTools
  /\ startPos \notin {NoPos, SomePos} /\ snapshot \notin {NoImage, SomeImage}
  /\ <<snapshot.width, snapshot.height>> = <<canvas.width, canvas.height>>

\* C15: a pointer-down with a shape tool keeps the buffer as the snapshot
\* and the point as the start; every pointer-move of the drag leaves the
\* buffer equal to the snapshot with one shape from the start to the
\* pointer, whatever previews were on it; the pointer-up commits the buffer
\* as the last move left it.
C15_ShapePreview ==
  [][/\ (~isDrawing /\ tool \in ShapeTools /\ ~GetImageDataThrows(canvas)) =>
          \A p \in ClientPoints(rect) :
            (HandleMouseDown(p) /\ isDrawing') =>
              snapshot' = canvas /\ startPos' = GetEventCoordinates(p, dpr) /\ canvas' = canvas
     /\ ShapeDrag =>
          /\ \A p \in ClientPoints(rect) :
               HandleMouseMove(p) =>
                 canvas' = OneShape(snapshot, tool, color, startPos, GetEventCoordinates(p, dpr))
          /\ (HandleMouseUp /\ ~isDrawing') =>
               canvas' = canvas /\ Last(history') = canvas /\ Len(history') = Len(history) + 1
    ]_vars

\* in a drag of the line tool on a buffer two pixels wide, the preview on
\* the buffer covers one pixel: a pointer-move has drawn it
C15_Witness ==
  /\ ShapeDrag /\ tool = "line" /\ canvas.width = 2
  /\ Cardinality({c \in CellsOf(canvas) : PixelAt(canvas, c) # PixelAt(snapshot, c)}) = 1
  /\ \E p \in ClientPoints(rect) :
       /\ GetEventCoordinates(p, dpr) # startPos
       /\ OneShape(snapshot, tool, color, startPos, GetEventCoordinates(p, dpr)) # canvas

\* C21: a pointer-up or pointer-leave during a drag appends the buffer to
\* history, empties the redo stack and ends the drag; a pointer-up,
\* pointer-leave or pointer-move outside a drag changes neither the buffer
\* nor history nor the redo stack.
C21_DragFinalization ==
  [][/\ (isDrawing /\ HandleMouseUp) =>
          /\ history' = Append(history, canvas)
          /\ redoHistory' = <<>>
          /\ canvas' = canvas
          /\ ~isDrawing'
     /\ (~isDrawing /\ (HandleMouseUp \/ \E p \in ClientPoints(rect) : HandleMouseMove(p))) =>
          (canvas' = canvas /\ history' = history /\ redoHistory' = redoHistory)]_vars

\* C23: outside a drag the start point and the snapshot of the shape tools
\* are both null.
C23_TransientNullWhenIdle == ~isDrawing => (startPos = NoPos /\ snapshot = NoImage)

\* a drag has begun and no pointer-move, nor any other event, has come
\* since the pointer-down
NoMoveYet ==
  /\ isDrawing /\ asides = 0
  /\ IF tool \in {"draw", "erase"}
       THEN ctx.path # LeftOverPath /\ ctx.path.open /\ ~ctx.path.drawn
       ELSE tool \in ShapeTools /\ ctx.path = LeftOverPath /\ snapshot = canvas

\* C25: with the pencil, the eraser or a shape tool, a pointer-down paints
\* nothing and commits nothing, and the pointer-up that follows it leaves
\* the buffer as it is and appends exactly one snapshot, as the pointer-up
\* of a drag with movement does.
C25_DegenerateGesture ==
  [][/\ \A p \in ClientPoints(rect) :
          (~isDrawing /\ tool # "fill" /\ HandleMouseDown(p)) =>
            /\ canvas' = canvas /\ history' = history /\ redoHistory' = redoHistory
            /\ (isDrawing' <=> ctx # NoContext)
     /\ (isDrawing /\ asides = 0 /\ HandleMouseUp) =>
          /\ canvas' = canvas
          /\ history' = Append(history, canvas)
          /\ ~isDrawing'
     /\ (NoMoveYet /\ tool \in ShapeTools /\ HandleMouseUp) => canvas' = snapshot]_vars

\* the pointer has gone down with the triangle tool after one drawing was
\* committed, and has not moved
C25_Witness ==
  /\ NoMoveYet /\ tool = "triangle" /\ Len(history) = 2 /\ canvas = history[2]
  /\ canvas # history[1] /\ startPos # NoPos

\* the cells the eraser has cleared: all four channels 0
Erased(cv) == {c \in CellsOf(cv) : PixelAt(cv, c) = Transparent}

\* C28: a pixel the eraser has cleared is a boundary pixel whatever the
\* fill colour: a fill seeded on it changes nothing and commits nothing,
\* and a fill from any seed leaves it cleared.
C28_ErasedIsBoundary ==
  ctx # NoContext =>
    \A c \in Palette : \A p \in SeedPoints :
      LET f == FloodFill(canvas, c, p[1], p[2])
      IN /\ SeedCell(p) \in Erased(canvas) =>
              FillResult(canvas, history, redoHistory, c, p) = Eng
         /\ \A e \in Erased(canvas) :
              /\ Boundary(PixelAt(canvas, e), HexToRgb(c))
              /\ PixelAt(f.canvas, e) = Transparent

\* the eraser has cleared the first pixel of a 2x1 buffer, and a fill
\* seeded on the second has painted it black and left the first cleared
C28_Witness ==
  /\ canvas.width = 2 /\ canvas.height = 1 /\ tool = "fill" /\ ~isDrawing
  /\ PixelAt(canvas, <<0, 0>>) = Transparent /\ PixelAt(canvas, <<1, 0>>) = Black
  /\ Len(history) = 3 /\ history[3] = canvas
  /\ PixelAt(history[2], <<0, 0>>) = Transparent /\ PixelAt(history[2], <<1, 0>>) = White
  /\ history[1] = NewImage(2, 1, White)

(***************************************************************************)
(* The coordinate mapping on its own.  An element of 3x3 CSS pixels lies   *)
(* at any origin of a few half pixels, at a device pixel ratio of 1, 2 or  *)
(* 3, a shape tool is selected, and pointers go down on it: a mouse        *)
(* button, or a finger with possibly a second finger already down.         *)
(***************************************************************************)
CoordDPRs == {1, 2, 3}

CoordRect == <<6, 6>>

Origins == (0..MaxOrigin2) \X (0..MaxOrigin2)

\* the positions, in half CSS pixels, over the element at an origin
PointsOver(o) == (o[1]..(o[1] + CoordRect[1] - 1)) \X (o[2]..(o[2] + CoordRect[2] - 1))

\* the events a pointer going down at P on the element at o gives
DownEvents(o, P) ==
  {[type |-> "mouse", client |-> P], [type |-> "touch", touches |-> <<P>>]}
    \cup {[type |-> "touch", touches |-> <<P, Q>>] : Q \in {o, <<o[1] + 1, o[2] + 2>>}}

\* handleMouseDown (part_000:450-474) with a shape tool, for an event and
\* the element's origin
PointerDownShape(event, o) ==
  /\ tool \in ShapeTools /\ ctx # NoContext /\ ~GetImageDataThrows(canvas)
  /\ ctx' = SetContextSettings(ctx, tool, color)
  /\ isDrawing' = TRUE
  /\ snapshot' = canvas
  /\ startPos' = EventCoordinates(event, o, dpr)
  /\ UNCHANGED <<canvas, rect, dpr, tool, color, history, redoHistory, asides>>

InitCoords ==
  /\ dpr \in CoordDPRs
  /\ rect = CoordRect
  /\ LET s == SetupCanvas(DefaultCanvas, NoContext, <<>>, <<>>, Required2(rect, dpr))
     IN /\ canvas = s.canvas
        /\ ctx = Kept(FALSE, s.ctx)
        /\ history = s.history
        /\ redoHistory = s.redoHistory
  /\ isDrawing = FALSE
  /\ tool \in ShapeTools
  /\ color = COLORS[2]
  /\ startPos = NoPos
  /\ snapshot = NoImage
  /\ asides = 0
  /\ HostInit

NextCoords ==
  \E o \in Origins : \E P \in PointsOver(o) : \E event \in DownEvents(o, P) :
    PointerDownShape(event, o) /\ UNCHANGED host

SpecCoords == InitCoords /\ [][NextCoords]_vars

\* C16: for a mouse position or a first touch point P, an origin O of the
\* element and a device pixel ratio R of 1, 2 or 3, the coordinate
\* getEventCoordinates gives is (P - O) * R on each axis, and it is the
\* start point a pointer-down keeps.
C16_CoordinateMapping ==
  /\ dpr \in {1, 2, 3}
  /\ \A o \in Origins : \A P \in PointsOver(o) : \A event \in DownEvents(o, P) :
       EventCoordinates(event, o, dpr) = <<(P[1] - o[1]) * dpr, (P[2] - o[2]) * dpr>>
  /\ startPos # NoPos =>
       \E o \in Origins : \E P \in PointsOver(o) :
         startPos = <<P[1] * dpr - o[1] * dpr, P[2] * dpr - o[2] * dpr>>

\* at a device pixel ratio of 3 a pointer went down 2.5 CSS pixels right
\* of and 1 CSS pixel below the origin: the start point is (7.5, 3)
C16_Witness == dpr = 3 /\ isDrawing /\ startPos = <<15, 6>> /\ snapshot = canvas

(***************************************************************************)
(* The session: the host renders the component while its isDrawing is      *)
(* true (Workspace.tsx:261), Done asks the browser for a PNG of the buffer *)
(* and the browser answers later, Cancel is the host's toggle.  The buffer *)
(* is one pixel, painted with the bucket or the pencil.                    *)
(***************************************************************************)
\* the times Done is pressed
MaxDone == 2
\* the times the host renders the component
MaxSessions == 2

SessionTools == {"draw", "fill"}

NoBlob == [type |-> "", pixels |-> NoImage]

\* canvas.toBlob(callback, 'image/png'): the blob the callback gets, a PNG
\* of the bitmap as it is at the call, null for a bitmap without pixels
ToBlob(cv) ==
  IF cv.width = 0 \/ cv.height = 0 THEN NoBlob
  ELSE [type |-> "image/png", pixels |-> cv]

\* new File([blob], 'sketch.png', { type: 'image/png' }) (part_000:534)
SketchFile(blob) == [name |-> "sketch.png", type |-> "image/png", content |-> <<blob>>]

\* handleComplete (part_000:531-538) up to the return of toBlob
HandleComplete ==
  /\ mounted
  /\ encodes' = Append(encodes, [session |-> session, blob |-> ToBlob(canvas)])
  /\ UNCHANGED <<canvas, ctx, rect, dpr, isDrawing, tool, color, history, redoHistory,
                 startPos, snapshot, asides>>
  /\ UNCHANGED <<mounted, sketchFile, session, completions, cancelled>>
  /\ UNCHANGED workflow

\* the sequence without its i-th element
Without(seq, i) == SubSeq(seq, 1, i - 1) \o SubSeq(seq, i + 1, Len(seq))

\* handleFileChange (Workspace.tsx:71-82) of a file, handleResetVariations
\* (Workspace.tsx:152-161) included; the preview the FileReader loads is
\* not modelled
HandleFileChange(file) ==
  /\ sketchFile' = file
  /\ isGenerating' = FALSE
  /\ generatedGeometries' = <<>>
  /\ selectedGeometryIndex' = NoIndex
  /\ error' = NoError
  /\ workflowStep' = "generating"
  /\ UNCHANGED requests

\* the callback given to toBlob (part_000:532-537), run for the i-th call
\* not yet answered; onComplete is handleDrawingComplete
\* (Workspace.tsx:235-238), which hands the file to handleFileChange and
\* sets isDrawing to false
ToBlobCallback(i) ==
  LET e == encodes[i]
      file == SketchFile(e.blob)
  IN /\ encodes' = Without(encodes, i)
     /\ IF e.blob # NoBlob
          THEN /\ HandleFileChange(file)
               /\ mounted' = FALSE
               /\ completions' = Append(completions, [session |-> e.session, file |-> file])
          ELSE /\ UNCHANGED <<sketchFile, mounted, completions>>
               /\ UNCHANGED workflow
     /\ UNCHANGED engine
     /\ UNCHANGED <<session, cancelled>>

\* handleToggleDrawing (Workspace.tsx:233)
HandleToggleDrawing == mounted' = ~mounted

\* the Cancel button (part_000:626-630): onCancel is handleToggleDrawing
Cancel ==
  /\ mounted
  /\ HandleToggleDrawing
  /\ cancelled' = cancelled \cup {session}
  /\ UNCHANGED <<canvas, ctx, rect, dpr, isDrawing, tool, color, history, redoHistory,
                 startPos, snapshot, asides>>
  /\ UNCHANGED <<sketchFile, encodes, session, completions>>
  /\ UNCHANGED workflow

\* the host's Draw Sketch button (Workspace.tsx:278, ControlBar.tsx:79-85),
\* shown in the upload step: the component is mounted anew, its state as
\* after construction
OpenDrawing ==
  /\ ~mounted
  /\ workflowStep = "upload"
  /\ session < MaxSessions
  /\ HandleToggleDrawing
  /\ session' = session + 1
  /\ LET s == SetupCanvas(DefaultCanvas, NoContext, <<>>, <<>>, Required2(rect, dpr))
     IN /\ canvas' = s.canvas
        /\ ctx' = Kept(FALSE, s.ctx)
        /\ history' = s.history
        /\ redoHistory' = s.redoHistory
  /\ isDrawing' = FALSE
  /\ tool' = "draw"
  /\ color' = COLORS[2]
  /\ startPos' = NoPos
  /\ snapshot' = NoImage
  /\ asides' = 0
  /\ UNCHANGED <<rect, dpr, sketchFile, encodes, completions, cancelled>>
  /\ UNCHANGED workflow

InitSession ==
  /\ dpr = 1
  /\ rect = <<2, 2>>
  /\ LET s == SetupCanvas(DefaultCanvas, NoContext, <<>>, <<>>, Required2(rect, dpr))
     IN /\ canvas = s.canvas
        /\ ctx = Kept(FALSE, s.ctx)
        /\ history = s.history
        /\ redoHistory = s.redoHistory
  /\ isDrawing = FALSE
  /\ tool = "draw"
  /\ color = COLORS[2]
  /\ startPos = NoPos
  /\ snapshot = NoImage
  /\ asides = 0
  /\ HostInit

\* the model's bound on the presses of Done
DoneLeft == Len(encodes) + Len(completions) < MaxDone

NextSession ==
  \/ \E t \in SessionTools : mounted /\ SetTool(t) /\ Aside /\ UNCHANGED host
  \/ \E c \in Palette : mounted /\ SetColor(c) /\ Aside /\ UNCHANGED host
  \/ \E p \in ClientPoints(rect) : mounted /\ Room /\ HandleMouseDown(p) /\ Aside /\ UNCHANGED host
  \/ \E p \in ClientPoints(rect) : mounted /\ HandleMouseMove(p) /\ UNCHANGED asides /\ UNCHANGED host
  \/ mounted /\ HandleMouseUp /\ asides' = (IF isDrawing' THEN asides ELSE 0) /\ UNCHANGED host
  \/ DoneLeft /\ HandleComplete
  \/ \E i \in DOMAIN encodes : ToBlobCallback(i)
  \/ Cancel
  \/ OpenDrawing

SpecSession == InitSession /\ [][NextSession]_vars

(***************************************************************************)
(* Properties of the session.                                              *)
(***************************************************************************)
\* the calls of onComplete with a file of session s
CompletionsOf(s) == {i \in DOMAIN completions : completions[i].session = s}

\* C19: onComplete is called at most once for a session, and each call
\* carries a PNG of the buffer under the name 'sketch.png'.
C19_DeliveredOnce ==
  /\ \A s \in 1..session : Cardinality(CompletionsOf(s)) <= 1
  /\ \A i \in DOMAIN completions :
       /\ completions[i].file.name = "sketch.png"
       /\ completions[i].file.content[1].type = "image/png"
       /\ completions[i].file.content[1].pixels # NoImage

\* C20: no call of onComplete carries a file of a session whose onCancel
\* was called.
C20_NoOutputAfterCancel ==
  [][Len(completions') > Len(completions) =>
       Last(completions').session \notin cancelled]_vars

(***************************************************************************)
(* The host's workflow (Workspace.tsx): a sketch is uploaded or drawn, the *)
(* backend is asked for meshes and answers later, Start Over drops the     *)
(* sketch.  The Sidebar of the results step is not among the sources; of   *)
(* it only Start Over and the reset of the variations, whose handlers are  *)
(* Workspace's, are modelled.                                              *)
(***************************************************************************)
\* the fetches not answered at one time
MaxRequests == 2
\* the geometries one answer carries
MaxVariations == 2

\* the files the user uploads
Uploads ==
  {[name |-> n, type |-> "image/png", content |-> <<n>>] : n \in {"a.png", "b.png"}}

\* the upload button of the upload step (ControlBar.tsx:72-78)
Upload(file) ==
  /\ workflowStep = "upload"
  /\ HandleFileChange(file)
  /\ UNCHANGED engine
  /\ UNCHANGED <<mounted, encodes, session, completions, cancelled>>

\* handleGeneration (Workspace.tsx:84-143) up to its fetch; the Generate
\* button is shown in the generating step while isGenerating is false
\* (ControlBar.tsx:109-142)
HandleGeneration ==
  /\ workflowStep = "generating" /\ ~isGenerating
  /\ IF sketchFile = NoFile
       THEN /\ error' = "Please upload a sketch first."
            /\ UNCHANGED <<workflowStep, isGenerating, generatedGeometries,
                           selectedGeometryIndex, requests>>
       ELSE /\ isGenerating' = TRUE
            /\ error' = NoError
            /\ generatedGeometries' = <<>>
            /\ selectedGeometryIndex' = NoIndex
            /\ workflowStep' = "generating"
            /\ requests' = Append(requests, [file |-> sketchFile])
  /\ UNCHANGED engine
  /\ UNCHANGED <<mounted, sketchFile, encodes, session, completions, cancelled>>

\* the rest of handleGeneration (Workspace.tsx:110-134, 141-142) when the
\* i-th fetch is answered with k valid geometries
ResponseOk(i, k) ==
  /\ generatedGeometries' = [j \in 1..k |-> [of |-> requests[i].file.name, variation |-> j]]
  /\ selectedGeometryIndex' = 0
  /\ workflowStep' = "results"
  /\ isGenerating' = FALSE
  /\ requests' = Without(requests, i)
  /\ UNCHANGED error
  /\ UNCHANGED engine
  /\ UNCHANGED <<mounted, sketchFile, encodes, session, completions, cancelled>>

\* the rest of handleGeneration (Workspace.tsx:136-142) when the i-th
\* fetch fails or its answer is not valid; sketchFile is the one the call
\* was made with
ResponseFailed(i) ==
  /\ error' = "Generation Error"
  /\ workflowStep' = IF requests[i].file # NoFile THEN "generating" ELSE "upload"
  /\ isGenerating' = FALSE
  /\ requests' = Without(requests, i)
  /\ UNCHANGED <<generatedGeometries, selectedGeometryIndex>>
  /\ UNCHANGED engine
  /\ UNCHANGED <<mounted, sketchFile, encodes, session, completions, cancelled>>

\* handleStartOver (Workspace.tsx:145-150), on the button of the
\* generating step (ControlBar.tsx:100-105) and of the results step
\* (Workspace.tsx:293); its handleResetVariations is the first render's,
\* whose sketchFile is null
HandleStartOver ==
  /\ workflowStep \in {"generating", "results"}
  /\ sketchFile' = NoFile
  /\ workflowStep' = "upload"
  /\ isGenerating' = FALSE
  /\ generatedGeometries' = <<>>
  /\ selectedGeometryIndex' = NoIndex
  /\ error' = NoError
  /\ UNCHANGED requests
  /\ UNCHANGED engine
  /\ UNCHANGED <<mounted, encodes, session, completions, cancelled>>

\* handleResetVariations (Workspace.tsx:152-161) on the results step
\* (Workspace.tsx:294)
HandleResetVariations ==
  /\ workflowStep = "results"
  /\ isGenerating' = FALSE
  /\ generatedGeometries' = <<>>
  /\ selectedGeometryIndex' = NoIndex
  /\ error' = NoError
  /\ workflowStep' = IF sketchFile # NoFile THEN "generating" ELSE workflowStep
  /\ UNCHANGED requests
  /\ UNCHANGED engine
  /\ UNCHANGED <<mounted, sketchFile, encodes, session, completions, cancelled>>

\* the host before the drawing is opened
InitHost ==
  /\ dpr = 1
  /\ rect = <<2, 2>>
  /\ LET s == SetupCanvas(DefaultCanvas, NoContext, <<>>, <<>>, Required2(rect, dpr))
     IN /\ canvas = s.canvas
        /\ ctx = Kept(FALSE, s.ctx)
        /\ history = s.history
        /\ redoHistory = s.redoHistory
  /\ isDrawing = FALSE
  /\ tool = "draw"
  /\ color = COLORS[2]
  /\ startPos = NoPos
  /\ snapshot = NoImage
  /\ asides = 0
  /\ mounted = FALSE
  /\ sketchFile = NoFile
  /\ encodes = <<>>
  /\ session = 0
  /\ completions = <<>>
  /\ cancelled = {}
  /\ WorkflowInit

NextHost ==
  \/ \E file \in Uploads : ~mounted /\ Upload(file)
  \/ Len(requests) < MaxRequests /\ HandleGeneration
  \/ \E i \in DOMAIN requests : \E k \in 1..MaxVariations : ResponseOk(i, k)
  \/ \E i \in DOMAIN requests : ResponseFailed(i)
  \/ HandleStartOver
  \/ HandleResetVariations
  \/ OpenDrawing
  \/ DoneLeft /\ HandleComplete
  \/ \E i \in DOMAIN encodes : ToBlobCallback(i)
  \/ Cancel

SpecHost == InitHost /\ [][NextHost]_vars

(***************************************************************************)
(* Properties of the host's workflow.                                      *)
(***************************************************************************)
\* C29: at most one request to the backend is not yet answered.
C29_SingleRequest == Len(requests) <= 1

\* C30: without a sketch file the workflow is at the upload step with no
\* geometries, whatever answers come from the backend; at the results step
\* there is a sketch file and the selected index is one of the geometries.
C30_StartOverFinal ==
  /\ sketchFile = NoFile => (workflowStep = "upload" /\ generatedGeometries = <<>>)
  /\ workflowStep = "results" =>
       /\ sketchFile # NoFile
       /\ selectedGeometryIndex \in 0..(Len(generatedGeometries) - 1)

====
